---- MODULE Spec2Model ----
(***************************************************************************)
(* A model of src/app.py, the carwash dashboard: the phone normaliser, the *)
(* visit grouping, the LTV table, the wash comparison, the outlier fence   *)
(* and the filter pass of main.                                            *)
(*                                                                         *)
(* Strings are sequences of one-character strings, so that strip, replace, *)
(* isdigit and float() act on characters as the Python code does.  Money   *)
(* is counted in whole units (Python floats are exact on them).            *)
(* Timestamps are minutes; NaT is the null timestamp; a null text cell     *)
(* (pandas NaN, whose str() is "nan") is the value NaN.                    *)
(***************************************************************************)
EXTENDS Integers, Sequences, FiniteSets, TLC

VARIABLES
    pc,            \* position of the driver of the function under check
    raw,           \* normalize_phone: the input string
    normalized,    \* normalize_phone(raw)
    renormalized,  \* normalize_phone(normalize_phone(raw))
    category,      \* categorize_by_phone(raw)
    df,            \* the records given to group_transactions_to_visits / calculate_ltv
    df_work,       \* the sorted working copy with its visit_id column
    visits,        \* the result of group_transactions_to_visits
    ltv,           \* the result of calculate_ltv
    wash_keys1,    \* compare_washes: the wash_key column of the first frame
    wash_keys2,    \* the wash_key column of the second frame
    comparison,    \* the result of compare_washes
    amounts,       \* the outlier fence: filtered["total"].values
    outlier_result, \* q1, q3, upper and the outliers
    uploaded_files, \* main: the files of the uploader, each the rows of a CSV
    widgets,       \* the values of the sidebar widgets in the last run
    screen,        \* what the last run of main computed and showed
    session_state  \* st.session_state: the comparison kept from run to run

phoneVars == <<raw, normalized, renormalized, category>>

visitVars == <<df, df_work, visits, ltv>>

compareVars == <<wash_keys1, wash_keys2, comparison>>

outlierVars == <<amounts, outlier_result>>

mainVars == <<uploaded_files, widgets, screen, session_state>>

vars == <<pc, phoneVars, visitVars, compareVars, outlierVars, mainVars>>

(***************************************************************************)
(* Characters and strings                                                  *)
(***************************************************************************)
DigitChars == {"0", "1", "2", "3", "4", "5", "6", "7", "8", "9"}

DigitVal(c) ==
    CASE c = "0" -> 0 [] c = "1" -> 1 [] c = "2" -> 2 [] c = "3" -> 3
      [] c = "4" -> 4 [] c = "5" -> 5 [] c = "6" -> 6 [] c = "7" -> 7
      [] c = "8" -> 8 [] c = "9" -> 9

\* str.lower() on the characters the model uses
LowerChar(c) ==
    CASE c = "E" -> "e" [] c = "N" -> "n" [] c = "A" -> "a" [] c = "O" -> "o"
      [] c = "I" -> "i" [] c = "F" -> "f"
      [] OTHER -> c

Lower(s) == [i \in 1..Len(s) |-> LowerChar(s[i])]

\* code points, for the order of strings (sort_values on an object column)
CharOrd(c) ==
    CASE c = " " -> 32 [] c = "(" -> 40 [] c = "+" -> 43 [] c = "," -> 44
      [] c = "-" -> 45 [] c = "." -> 46
      [] c \in DigitChars -> 48 + DigitVal(c)
      [] c = "E" -> 69 [] c = "N" -> 78 [] c = "a" -> 97 [] c = "b" -> 98
      [] c = "c" -> 99 [] c = "e" -> 101
      [] c = "f" -> 102 [] c = "i" -> 105 [] c = "n" -> 110 [] c = "o" -> 111
      [] c = "|" -> 124
      [] OTHER -> 200

RECURSIVE LStrip(_)
LStrip(s) == IF s # <<>> /\ Head(s) = " " THEN LStrip(Tail(s)) ELSE s

RECURSIVE RStrip(_)
RStrip(s) ==
    IF s # <<>> /\ s[Len(s)] = " " THEN RStrip(SubSeq(s, 1, Len(s) - 1)) ELSE s

\* str.strip()
Strip(s) == RStrip(LStrip(s))

\* str.replace(",", ".")
ReplaceComma(s) == [i \in 1..Len(s) |-> IF s[i] = "," THEN "." ELSE s[i]]

\* ''.join(filter(str.isdigit, s))
RECURSIVE FilterDigits(_)
FilterDigits(s) ==
    IF s = <<>> THEN <<>>
    ELSE IF Head(s) \in DigitChars THEN <<Head(s)>> \o FilterDigits(Tail(s))
    ELSE FilterDigits(Tail(s))

IsDigits(s) == \A i \in 1..Len(s) : s[i] \in DigitChars

RECURSIVE StripZeros(_)
StripZeros(s) == IF s # <<>> /\ Head(s) = "0" THEN StripZeros(Tail(s)) ELSE s

Zeros(n) == [i \in 1..n |-> "0"]

\* the first index of s holding a character of cs, 0 when there is none
FirstOf(s, cs) ==
    IF \E i \in 1..Len(s) : s[i] \in cs
    THEN CHOOSE i \in 1..Len(s) : s[i] \in cs /\ \A j \in 1..(i - 1) : s[j] \notin cs
    ELSE 0

(***************************************************************************)
(* float() and int() of Python, in exact decimal arithmetic                *)
(***************************************************************************)
\* the largest exponent a digit string is read to; beyond it float() is 0 or inf
ExpCap == 400

\* digits of a double that are exact: every integer below 10^15 is a double
MaxExactDigits == 15

\* a double overflows to inf from 10^309 on
MaxDoubleDigits == 309

RECURSIVE DecValue(_)
DecValue(ds) ==
    IF ds = <<>> THEN 0
    ELSE LET v == DecValue(SubSeq(ds, 1, Len(ds) - 1)) * 10 + DigitVal(ds[Len(ds)])
         IN  IF v > ExpCap THEN ExpCap ELSE v

\* float(s): [kind |-> "invalid"] (ValueError), "nan", "inf", or "finite" with
\* the value (-1)^neg * mant * 10^sh, mant a digit string
ParseFloat(s) ==
    LET t == Strip(s)
        signed == t # <<>> /\ Head(t) \in {"+", "-"}
        neg == t # <<>> /\ Head(t) = "-"
        body == IF signed THEN Tail(t) ELSE t
        low == Lower(body)
        epos == FirstOf(body, {"e", "E"})
        mpart == IF epos = 0 THEN body ELSE SubSeq(body, 1, epos - 1)
        epart == IF epos = 0 THEN <<>> ELSE SubSeq(body, epos + 1, Len(body))
        esigned == epart # <<>> /\ Head(epart) \in {"+", "-"}
        eneg == epart # <<>> /\ Head(epart) = "-"
        edigits == IF esigned THEN Tail(epart) ELSE epart
        dpos == FirstOf(mpart, {"."})
        ipart == IF dpos = 0 THEN mpart ELSE SubSeq(mpart, 1, dpos - 1)
        fpart == IF dpos = 0 THEN <<>> ELSE SubSeq(mpart, dpos + 1, Len(mpart))
        mantOK == IsDigits(ipart) /\ IsDigits(fpart) /\ Len(ipart) + Len(fpart) >= 1
        expOK == epos = 0 \/ (edigits # <<>> /\ IsDigits(edigits))
        ev == IF epos = 0 THEN 0
              ELSE IF eneg THEN 0 - DecValue(edigits) ELSE DecValue(edigits)
    IN  IF low = <<"n", "a", "n">> THEN [kind |-> "nan"]
        ELSE IF low \in {<<"i", "n", "f">>, <<"i", "n", "f", "i", "n", "i", "t", "y">>}
        THEN [kind |-> "inf"]
        ELSE IF ~(mantOK /\ expOK) THEN [kind |-> "invalid"]
        ELSE LET mant == StripZeros(ipart \o fpart)
                 sh == ev - Len(fpart)
             IN  IF mant # <<>> /\ Len(mant) + sh > MaxDoubleDigits
                 THEN [kind |-> "inf"]
                 ELSE [kind |-> "finite", neg |-> neg, mant |-> mant, sh |-> sh]

\* the number of digits of int(f) for a finite f
IntDigitCount(f) ==
    IF f.mant = <<>> \/ Len(f.mant) + f.sh <= 0 THEN 1 ELSE Len(f.mant) + f.sh

\* str(int(f)) for a finite f: truncation toward zero, no sign on zero
IntStr(f) ==
    LET n == Len(f.mant) + f.sh
        ds == IF f.mant = <<>> \/ n <= 0 THEN <<>>
              ELSE IF f.sh >= 0 THEN f.mant \o Zeros(f.sh)
              ELSE SubSeq(f.mant, 1, n)
    IN  IF ds = <<>> THEN <<"0">>
        ELSE IF f.neg THEN <<"-">> \o ds ELSE ds

\* the decimal arithmetic above is the double arithmetic of the code when the
\* mantissa and the integer result are short enough to be exact doubles
ExactDouble(s) ==
    LET f == ParseFloat(ReplaceComma(Strip(s)))
    IN  f.kind = "finite" =>
            Len(f.mant) <= MaxExactDigits /\ IntDigitCount(f) <= MaxExactDigits

(***************************************************************************)
(* normalize_phone, categorize_by_phone                                    *)
(***************************************************************************)
YANDEX_PHONE == <<"1", "3", "3", "1", "3", "3", "1", "3", "3", "1", "3", "3">>

\* the labels of categorize_by_phone: "Yandex" stands for the aggregator label,
\* "Leyka" for every other phone
normalize_phone(phone) ==
    LET phone_str == Strip(phone)
        f == ParseFloat(ReplaceComma(phone_str))
    IN  IF Lower(phone_str) \in {<<"n", "a", "n">>, <<"n", "o", "n", "e">>, <<>>}
        THEN <<>>
        ELSE IF f.kind = "finite" THEN IntStr(f)
        ELSE FilterDigits(phone_str)

categorize_by_phone(phone) ==
    IF normalize_phone(phone) = YANDEX_PHONE THEN "Yandex" ELSE "Leyka"

(***************************************************************************)
(* group_transactions_to_visits                                            *)
(***************************************************************************)
\* a null text cell of the frame (read_csv reads an empty cell as NaN)
NaN == <<"n", "a", "n">>

\* a null timestamp (pd.to_datetime(..., errors="coerce"))
NaT == -1

\* time_window_minutes=30, the default and the value every caller passes
TIME_WINDOW_MINUTES == 30

\* the order of Python strings
RECURSIVE StrLess(_, _)
StrLess(a, b) ==
    IF b = <<>> THEN FALSE
    ELSE IF a = <<>> THEN TRUE
    ELSE IF Head(a) = Head(b) THEN StrLess(Tail(a), Tail(b))
    ELSE CharOrd(Head(a)) < CharOrd(Head(b))

RECURSIVE SumField(_, _)
SumField(rows, fld) ==
    IF rows = <<>> THEN 0 ELSE Head(rows)[fld] + SumField(Tail(rows), fld)

\* df_work.dropna(subset=["Дата оплаты", "Телефон"])
dropna(rows) == SelectSeq(rows, LAMBDA r : r.ts # NaT /\ r.phone # NaN)

\* the sort key ["Телефон", "Дата оплаты"]: the phone cell as it is, then the time
RowBefore(a, b) == StrLess(a.phone, b.phone) \/ (a.phone = b.phone /\ a.ts < b.ts)

RECURSIVE InsertSorted(_, _)
InsertSorted(r, s) ==
    IF s = <<>> THEN <<r>>
    ELSE IF RowBefore(r, Head(s)) THEN <<r>> \o s
    ELSE <<Head(s)>> \o InsertSorted(r, Tail(s))

\* df_work.sort_values(["Телефон", "Дата оплаты"]): rows of equal key keep
\* their order
RECURSIVE sort_values(_)
sort_values(rows) ==
    IF rows = <<>> THEN <<>>
    ELSE InsertSorted(rows[Len(rows)], sort_values(SubSeq(rows, 1, Len(rows) - 1)))

\* the loop over df_work.iterrows(): the visit_id of each row, 0 for None.
\* st.started is FALSE while last_phone and last_datetime are None.
RECURSIVE ScanVisits(_, _, _)
ScanVisits(rows, time_window_minutes, st) ==
    IF rows = <<>> THEN <<>>
    ELSE LET row == Head(rows)
             phone == Strip(row.phone)
             current_datetime == row.ts
             fresh == \/ ~st.started
                      \/ phone # st.last_phone
                      \/ current_datetime - st.last_datetime > time_window_minutes
             id == IF fresh THEN st.current_visit_id + 1 ELSE st.current_visit_id
         IN  IF current_datetime = NaT
             THEN <<0>> \o ScanVisits(Tail(rows), time_window_minutes, st)
             ELSE <<id>> \o ScanVisits(Tail(rows), time_window_minutes,
                                      [started |-> TRUE, current_visit_id |-> id,
                                       last_phone |-> phone,
                                       last_datetime |-> current_datetime])

ScanStart ==
    [started |-> FALSE, current_visit_id |-> 0, last_phone |-> <<>>, last_datetime |-> 0]

\* df_work after the loop: the rows kept, sorted, each with its visit_id
assign_visit_ids(rows, time_window_minutes) ==
    LET s == sort_values(dropna(rows))
        ids == ScanVisits(s, time_window_minutes, ScanStart)
    IN  [k \in 1..Len(s) |->
            [f \in DOMAIN s[k] \cup {"visit_id"} |->
                IF f = "visit_id" THEN ids[k] ELSE s[k][f]]]

\* df_work.groupby("visit_id").agg(total sum, phone first, time first): one row
\* per visit_id, in the order of visit_id; rows whose visit_id is None are left out
aggregate_visits(work) ==
    LET ids == {work[k].visit_id : k \in 1..Len(work)} \ {0}
        n == IF ids = {} THEN 0 ELSE CHOOSE m \in ids : \A j \in ids : j <= m
    IN  [v \in 1..n |->
            LET members == SelectSeq(work, LAMBDA r : r.visit_id = v)
            IN  [visit_id |-> v,
                 visit_total |-> SumField(members, "total"),
                 phone |-> members[1].phone,
                 ts |-> members[1].ts]]

group_transactions_to_visits(rows, time_window_minutes) ==
    IF rows = <<>> THEN <<>>
    ELSE aggregate_visits(assign_visit_ids(rows, time_window_minutes))

(***************************************************************************)
(* calculate_ltv                                                           *)
(***************************************************************************)
\* the keys of a groupby, ascending
RECURSIVE SortedKeys(_)
SortedKeys(S) ==
    IF S = {} THEN <<>>
    ELSE LET m == CHOOSE x \in S : \A y \in S : y = x \/ StrLess(x, y)
         IN  <<m>> \o SortedKeys(S \ {m})

\* a slip in the aggregation: the client's first visit instead of the sum
ltv_by_client_first(vs) ==
    LET keys == SortedKeys({vs[i].phone : i \in 1..Len(vs)})
    IN  [k \in 1..Len(keys) |->
            LET mine == SelectSeq(vs, LAMBDA v : v.phone = keys[k])
            IN  [phone |-> keys[k],
                 LTV |-> mine[1].visit_total,
                 n_visits |-> Len(mine)]]

\* visits.groupby("Телефон").agg(visit_total sum, visit_id count)
ltv_by_client(vs) ==
    LET keys == SortedKeys({vs[i].phone : i \in 1..Len(vs)})
    IN  [k \in 1..Len(keys) |->
            LET mine == SelectSeq(vs, LAMBDA v : v.phone = keys[k])
            IN  [phone |-> keys[k],
                 LTV |-> SumField(mine, "visit_total"),
                 n_visits |-> Len(mine)]]

\* a slip in the count: the records the visit grouping keeps, not the raw ones
transaction_count_grouped(rows, phone) ==
    Cardinality({i \in 1..Len(rows) : rows[i].phone = phone /\ rows[i].ts # NaT})

\* df.groupby("Телефон").size(), read at one phone
transaction_count(rows, phone) ==
    Cardinality({i \in 1..Len(rows) : rows[i].phone = phone})

RECURSIVE InsertByLtv(_, _)
InsertByLtv(r, s) ==
    IF s = <<>> THEN <<r>>
    ELSE IF Head(s).LTV < r.LTV THEN <<r>> \o s
    ELSE <<Head(s)>> \o InsertByLtv(r, Tail(s))

\* sort_values("LTV", ascending=False)
RECURSIVE sort_by_ltv(_)
sort_by_ltv(s) ==
    IF s = <<>> THEN <<>>
    ELSE InsertByLtv(s[Len(s)], sort_by_ltv(SubSeq(s, 1, Len(s) - 1)))

calculate_ltv(rows) ==
    IF rows = <<>> THEN <<>>
    ELSE LET vs == group_transactions_to_visits(rows, TIME_WINDOW_MINUTES)
             by_client == ltv_by_client(vs)
             merged == [k \in 1..Len(by_client) |->
                           [phone |-> by_client[k].phone,
                            LTV |-> by_client[k].LTV,
                            n_visits |-> by_client[k].n_visits,
                            n_transactions |->
                                transaction_count(rows, by_client[k].phone)]]
         IN  sort_by_ltv(merged)

(***************************************************************************)
(* compare_washes                                                          *)
(***************************************************************************)
\* set(df["wash_key"].dropna().unique())
wash_set(keys) == {keys[i] : i \in 1..Len(keys)} \ {NaN}

\* a slip in the first difference: the second file's washes are not taken away
compare_washes_no_difference(keys1, keys2) ==
    LET washes1 == wash_set(keys1)
        washes2 == wash_set(keys2)
    IN  [only_in_1 |-> SortedKeys(washes1),
         only_in_2 |-> SortedKeys(washes2 \ washes1),
         common |-> SortedKeys(washes1 \cap washes2),
         count_1 |-> Cardinality(washes1),
         count_2 |-> Cardinality(washes2),
         count_common |-> Cardinality(washes1 \cap washes2)]

\* compare_washes(df1, df2, name1, name2), of the wash_key columns of the frames
compare_washes(keys1, keys2) ==
    LET washes1 == wash_set(keys1)
        washes2 == wash_set(keys2)
        only_in_1 == washes1 \ washes2
        only_in_2 == washes2 \ washes1
        common == washes1 \cap washes2
    IN  [only_in_1 |-> SortedKeys(only_in_1),
         only_in_2 |-> SortedKeys(only_in_2),
         common |-> SortedKeys(common),
         count_1 |-> Cardinality(washes1),
         count_2 |-> Cardinality(washes2),
         count_common |-> Cardinality(common)]

(***************************************************************************)
(* The outlier fence of main                                               *)
(***************************************************************************)
RECURSIVE InsertNumber(_, _)
InsertNumber(x, s) ==
    IF s = <<>> THEN <<x>>
    ELSE IF x < Head(s) THEN <<x>> \o s
    ELSE <<Head(s)>> \o InsertNumber(x, Tail(s))

RECURSIVE SortNumbers(_)
SortNumbers(s) ==
    IF s = <<>> THEN <<>>
    ELSE InsertNumber(s[Len(s)], SortNumbers(SubSeq(s, 1, Len(s) - 1)))

\* 4 * np.percentile(a, 25 * quarter), a not empty: the virtual index
\* (n - 1) * quarter / 4 is k + r/4, and the value is a[k] + (r/4) * (a[k+1] - a[k])
\* of the sorted array (numpy's default, linear interpolation)
percentile_x4(a, quarter) ==
    LET s == SortNumbers(a)
        pos == (Len(s) - 1) * quarter
        k == pos \div 4
        r == pos % 4
    IN  IF r = 0 THEN 4 * s[k + 1]
        ELSE 4 * s[k + 1] + r * (s[k + 2] - s[k + 1])

\* a slip in the comparison: >= instead of >
outlier_rows_inclusive(a, upper_x8) == {i \in 1..Len(a) : 8 * a[i] >= upper_x8}

\* filtered[filtered["total"] > upper], as the positions of the rows
outlier_rows(a, upper_x8) == {i \in 1..Len(a) : 8 * a[i] > upper_x8}

\* q1, q3, iqr, upper and outliers of main; the quartiles are kept times 4 and
\* the fence times 8, so that they stay whole numbers
detect_outliers(a) ==
    LET q1_x4 == percentile_x4(a, 1)
        q3_x4 == percentile_x4(a, 3)
        iqr_x4 == q3_x4 - q1_x4
        upper_x8 == 2 * q3_x4 + 3 * iqr_x4
    IN  [q1_x4 |-> q1_x4, q3_x4 |-> q3_x4, upper_x8 |-> upper_x8,
         outliers |-> outlier_rows(a, upper_x8)]

(***************************************************************************)
(* load_data and main, for one uploaded file                               *)
(***************************************************************************)
MINUTES_PER_DAY == 1440

\* .dt.date of a timestamp: null for a null timestamp
date_of(ts) == IF ts = NaT THEN NaT ELSE ts \div MINUTES_PER_DAY

Sep == <<" ", "|", " ">>

\* df["wash_key"] = Партнёр + " | " + Автомойка + " | " + Адрес
wash_key_of(r) == r.partner \o Sep \o r.wash \o Sep \o r.addr

\* load_data: every row of the file is kept; date, total and wash_key are added.
\* The cells of the file are taken as parsed: a payment time that does not parse
\* is NaT, the money columns are numbers.
load_data(file) ==
    [i \in 1..Len(file) |->
        [idx |-> i, num |-> file[i].num, ts |-> file[i].ts, phone |-> file[i].phone,
         partner |-> file[i].partner, wash |-> file[i].wash, addr |-> file[i].addr,
         cash |-> file[i].cash, bonus |-> file[i].bonus, box |-> file[i].box,
         date |-> date_of(file[i].ts),
         total |-> file[i].cash + file[i].bonus,
         wash_key |-> wash_key_of(file[i]),
         partner_category |-> categorize_by_phone(file[i].phone)]]

Column(rows, fld) == {rows[i][fld] : i \in 1..Len(rows)}

\* df["date"].min() and .max(): nulls are skipped; NaT when no row has a date
min_date(rows) ==
    LET ds == Column(rows, "date") \ {NaT}
    IN  IF ds = {} THEN NaT ELSE CHOOSE d \in ds : \A e \in ds : d <= e

max_date(rows) ==
    LET ds == Column(rows, "date") \ {NaT}
    IN  IF ds = {} THEN NaT ELSE CHOOSE d \in ds : \A e \in ds : d >= e

\* the options of the three multiselects: the non-empty values present
options(rows, fld) == Column(rows, fld) \ {<<>>}

\* get_period_label(filtered) is not None: some row has a date
has_period_label(rows) == Column(rows, "date") \ {NaT} # {}

\* the date mask: a comparison with a null date is False
date_mask(r, start_date, end_date) ==
    r.date # NaT /\ r.date >= start_date /\ r.date <= end_date

\* mask &= filtered[col].isin(sel), applied only when something is selected
isin_mask(r, fld, sel) == sel = {} \/ r[fld] \in sel

\* the aggregation ("№", "count"): the rows whose order number is not null
count_orders(rows) == Len(SelectSeq(rows, LAMBDA r : r.num # NaN))

\* filtered.groupby("date").agg(orders count, revenue sum).sort_values("date")
RECURSIVE SortedNumbersOf(_)
SortedNumbersOf(S) ==
    IF S = {} THEN <<>>
    ELSE LET m == CHOOSE x \in S : \A y \in S : x <= y
         IN  <<m>> \o SortedNumbersOf(S \ {m})

daily_dynamics(rows) ==
    LET days == SortedNumbersOf(Column(rows, "date") \ {NaT})
    IN  [k \in 1..Len(days) |->
            LET mine == SelectSeq(rows, LAMBDA r : r.date = days[k])
            IN  [date |-> days[k], orders |-> count_orders(mine),
                 revenue |-> SumField(mine, "box")]]

RECURSIVE InsertByRevenue(_, _)
InsertByRevenue(r, s) ==
    IF s = <<>> THEN <<r>>
    ELSE IF Head(s).revenue < r.revenue THEN <<r>> \o s
    ELSE <<Head(s)>> \o InsertByRevenue(r, Tail(s))

RECURSIVE sort_by_revenue(_)
sort_by_revenue(s) ==
    IF s = <<>> THEN <<>>
    ELSE InsertByRevenue(s[Len(s)], sort_by_revenue(SubSeq(s, 1, Len(s) - 1)))

\* filtered.groupby("wash_key").agg(orders, revenue).sort_values("revenue",
\* ascending=False); rows of equal revenue are left in the order of the keys
top_wash(rows) ==
    LET keys == SortedKeys(Column(rows, "wash_key"))
    IN  sort_by_revenue(
            [k \in 1..Len(keys) |->
                LET mine == SelectSeq(rows, LAMBDA r : r.wash_key = keys[k])
                IN  [wash_key |-> keys[k], orders |-> count_orders(mine),
                     revenue |-> SumField(mine, "box")]])

\* top_10_ltv = ltv_data_filtered.head(10)
TOP_N == 10

Head_n(s, n) == SubSeq(s, 1, IF Len(s) < n THEN Len(s) ELSE n)

\* a slip in the top-10: neither exclusion is applied
top_10_ltv_unfiltered(ltv_data, rows) == Head_n(ltv_data, TOP_N)

\* the top-10 of LTV: without the aggregator phone and without the clients whose
\* cash payments add up to nothing
top_10_ltv(ltv_data, rows) ==
    LET not_yandex == SelectSeq(ltv_data,
                                LAMBDA c : normalize_phone(c.phone) # YANDEX_PHONE)
        clients_with_cash ==
            {p \in Column(rows, "phone") \ {NaN} :
                SumField(SelectSeq(rows, LAMBDA r : r.phone = p), "cash") > 0}
    IN  Head_n(SelectSeq(not_yandex, LAMBDA c : c.phone \in clients_with_cash), TOP_N)

\* the aggregations of main
Aggregations == {"kpi", "visits", "ltv", "daily", "top_wash", "outliers"}

\* st.session_state before anything is stored in it
NoSession == [has |-> FALSE, comparison |-> <<>>, compare_names |-> <<>>]

\* the main area with no comparison on it
NoDisplay == [disappeared |-> <<>>, appeared |-> <<>>, counts |-> <<>>, names |-> <<>>]

\* df["wash_key"] of a loaded file
wash_keys_of(file) == [i \in 1..Len(file) |-> wash_key_of(file[i])]

\* lines 260-295: with more than one file and two different selections the
\* comparison is computed and stored; otherwise st.session_state is left as it is.
\* The name of a file is its place in the uploader.
sidebar_comparison(files, w, ss) ==
    IF Len(files) > 1 /\ w.compare_file1 # w.compare_file2
    THEN [has |-> TRUE,
          comparison |-> compare_washes(wash_keys_of(files[w.compare_file1]),
                                        wash_keys_of(files[w.compare_file2])),
          compare_names |-> <<w.compare_file1, w.compare_file2>>]
    ELSE ss

\* lines 601-631: what the main area shows of the stored comparison: the washes
\* that disappeared, with the three counts, and the new washes
comparison_display(ss) ==
    IF ~ss.has THEN NoDisplay
    ELSE [disappeared |-> ss.comparison.only_in_1,
          appeared |-> ss.comparison.only_in_2,
          counts |-> IF ss.comparison.only_in_1 # <<>>
                     THEN <<ss.comparison.count_1, ss.comparison.count_2,
                            ss.comparison.count_common>>
                     ELSE <<>>,
          names |-> IF ss.comparison.only_in_1 # <<>> \/ ss.comparison.only_in_2 # <<>>
                    THEN ss.compare_names ELSE <<>>]

\* what a run of main that stops early has on the screen
Stopped(status, rows, label) ==
    [status |-> status, filtered |-> rows, period_label |-> label,
     computed |-> {}, comparison |-> NoDisplay,
     n_operations |-> 0, unique_clients |-> 0,
     total_cash |-> 0, total_bonus |-> 0, total_sum |-> 0,
     visits |-> <<>>, ltv_data |-> <<>>, top_10_ltv |-> <<>>,
     daily |-> <<>>, top_wash |-> <<>>,
     outliers |-> [q1_x4 |-> 0, q3_x4 |-> 0, upper_x8 |-> 0, outliers |-> {}]]

\* the part of main after the "no data" check, lines 390-744
dashboard(filtered, label) ==
    LET ltv_data == calculate_ltv(filtered)
    IN  [status |-> "ok", filtered |-> filtered, period_label |-> label,
         computed |-> Aggregations, comparison |-> NoDisplay,
         n_operations |-> Len(filtered),
         unique_clients |->
             Cardinality({Strip(filtered[i].phone) : i \in 1..Len(filtered)}),
         total_cash |-> SumField(filtered, "cash"),
         total_bonus |-> SumField(filtered, "bonus"),
         total_sum |-> SumField(filtered, "total"),
         visits |-> group_transactions_to_visits(filtered, TIME_WINDOW_MINUTES),
         ltv_data |-> ltv_data,
         top_10_ltv |-> top_10_ltv(ltv_data, filtered),
         daily |-> daily_dynamics(filtered),
         top_wash |-> top_wash(filtered),
         outliers |-> detect_outliers([i \in 1..Len(filtered) |-> filtered[i].total])]

\* a slip: the emptiness of the filtered frame is not looked at
no_data_check_skipped(filtered, label) ==
    IF filtered = <<>>
    THEN [Stopped("ok", filtered, label) EXCEPT !.computed = Aggregations]
    ELSE dashboard(filtered, label)

\* if filtered.empty: st.warning(...); st.stop()
no_data_check(filtered, label) ==
    IF filtered = <<>> THEN Stopped("no_data", filtered, label)
    ELSE dashboard(filtered, label)

\* lines 343-373: the aggregator exclusion, then the mask of the date range and
\* of the three selections
apply_filters(df_loaded, w) ==
    LET excluded == IF w.exclude_yandex
                    THEN SelectSeq(df_loaded, LAMBDA r : r.partner_category # "Yandex")
                    ELSE df_loaded
    IN  SelectSeq(excluded,
                  LAMBDA r : /\ date_mask(r, w.date_range[1], w.date_range[2])
                             /\ isin_mask(r, "partner", w.partner_sel)
                             /\ isin_mask(r, "wash", w.wash_sel)
                             /\ isin_mask(r, "addr", w.addr_sel))

\* what a run that passed the filters leaves: its screen, with the stored
\* comparison in the main area when the run gets that far, and the session state
with_comparison(shown, stored) ==
    [screen |-> IF shown.status = "ok"
                THEN [shown EXCEPT !.comparison = comparison_display(stored)]
                ELSE shown,
     session_state |-> stored]

\* lines 386-631 for the filtered frame: the "no data" check, the aggregations,
\* and the stored comparison in the main area
main_area(filtered, stored) ==
    with_comparison(no_data_check(filtered, has_period_label(filtered)), stored)

\* lines 297-631 of main, the sidebar comparison done and `stored` in the session
analysis(files, w, stored) ==
    IF w.date_input_raises \/ Len(w.date_range) # 2
    THEN [screen |-> Stopped("error", <<>>, FALSE), session_state |-> stored]
    ELSE main_area(apply_filters(load_data(files[w.selected]), w), stored)

\* one run of main on the uploaded files with the widget values w and the
\* session state ss: what the run shows, and the session state it leaves.
\* w.selected is the file chosen for the analysis.
\* w.date_input_raises: lines 325-332 raised (the library's answer to a null
\* among the dates); a date_range that is not a pair makes the unpacking at line
\* 334 raise.
main(files, w, ss) ==
    IF files = <<>>
    THEN [screen |-> Stopped("no_files", <<>>, FALSE), session_state |-> ss]
    ELSE analysis(files, w, sidebar_comparison(files, w, ss))

(***************************************************************************)
(* The phone inputs                                                        *)
(***************************************************************************)
MaxLen == 3

PhoneAlphabet == {"0", "1", "7", " ", "-", "+", ".", ",", "E", "("}

StringsUpTo(n) == UNION {[1..k -> PhoneAlphabet] : k \in 0..n}

SciPeriod == <<"1", ".", "3", "3", "1", "3", "3", "E", "+", "1", "1">>
SciComma == <<"1", ",", "3", "3", "1", "3", "3", "E", "+", "1", "1">>
SciFull == <<"1", ".", "3", "3", "1", "3", "3", "1", "3", "3", "1", "3", "3",
             "E", "+", "1", "1">>
Formatted == <<"+", "7", " ", "(", "9", "9", "9", ")", " ", "1", "2", "-", "3", "4">>

SamplePhones ==
    {SciPeriod, SciComma, SciFull, Formatted, YANDEX_PHONE,
     <<"n", "a", "n">>, <<"N", "a", "N">>, <<"N", "o", "n", "e">>,
     <<"-", "i", "n", "f">>, <<"1", "E", "4", "0", "0">>}

PhoneInputs == {s \in StringsUpTo(MaxLen) \cup SamplePhones : ExactDouble(s)}

PhoneIdle ==
    /\ raw = <<>>
    /\ normalized = <<>>
    /\ renormalized = <<>>
    /\ category = "none"

VisitIdle ==
    /\ df = <<>>
    /\ df_work = <<>>
    /\ visits = <<>>
    /\ ltv = <<>>

CompareIdle ==
    /\ wash_keys1 = <<>>
    /\ wash_keys2 = <<>>
    /\ comparison = <<>>

OutlierIdle ==
    /\ amounts = <<>>
    /\ outlier_result = <<>>

NoWidgets ==
    [selected |-> 0, compare_file1 |-> 0, compare_file2 |-> 0,
     exclude_yandex |-> FALSE, date_input_raises |-> FALSE, date_range |-> <<>>,
     partner_sel |-> {}, wash_sel |-> {}, addr_sel |-> {}]

MainIdle ==
    /\ uploaded_files = <<>>
    /\ widgets = NoWidgets
    /\ screen = Stopped("none", <<>>, FALSE)
    /\ session_state = NoSession

InitPhone ==
    /\ pc = "phone_input"
    /\ VisitIdle /\ CompareIdle /\ OutlierIdle /\ MainIdle
    /\ raw \in PhoneInputs
    /\ normalized = <<>>
    /\ renormalized = <<>>
    /\ category = "none"

\* phone_normalized = normalize_phone(phone)
Normalize ==
    /\ pc = "phone_input"
    /\ normalized' = normalize_phone(raw)
    /\ pc' = "phone_normalized"
    /\ UNCHANGED <<raw, renormalized, category, visitVars, compareVars, outlierVars, mainVars>>

\* the normaliser applied to its own output
Renormalize ==
    /\ pc = "phone_normalized"
    /\ renormalized' = normalize_phone(normalized)
    /\ pc' = "phone_renormalized"
    /\ UNCHANGED <<raw, normalized, category, visitVars, compareVars, outlierVars, mainVars>>

\* df["Телефон"].apply(categorize_by_phone)
Categorize ==
    /\ pc = "phone_renormalized"
    /\ category' = categorize_by_phone(raw)
    /\ pc' = "phone_categorized"
    /\ UNCHANGED <<raw, normalized, renormalized, visitVars, compareVars, outlierVars, mainVars>>

NextPhone == Normalize \/ Renormalize \/ Categorize

SpecPhone == InitPhone /\ [][NextPhone]_vars

\* C1: normalize_phone is idempotent: applying it to its own result changes
\* nothing, on the numeric branch and on the digit-stripping branch alike.
C1_Idempotent ==
    pc \in {"phone_renormalized", "phone_categorized"} => renormalized = normalized

\* C2: a phone corrupted into exponential notation ("1.33133E+11", or with a
\* decimal comma) normalizes to the aggregator identity 133133133133 and is
\* categorized as the aggregator.
C2_SciNotationRepaired ==
    (pc = "phone_categorized" /\ raw \in {SciPeriod, SciComma}) =>
        (normalized = YANDEX_PHONE /\ category = "Yandex")

(***************************************************************************)
(* The records given to the visit grouping and to the LTV table            *)
(***************************************************************************)
MaxRows == 2

VisitPhones == {<<"7">>, <<"7", " ">>, <<"8">>, NaN}

VisitTimes == {NaT, 0, 30, 61}

VisitTotals == {1, 2}

RowCells == [phone : VisitPhones, ts : VisitTimes, total : VisitTotals]

\* the frame of the cells: the index label of a row is its position
MkDf(cells) ==
    [i \in 1..Len(cells) |->
        [idx |-> i, phone |-> cells[i].phone, ts |-> cells[i].ts,
         total |-> cells[i].total]]

ExamplePhone == <<"7", "9", "9", "9", "0", "0", "0", "0", "0", "0", "0">>

\* 10:00 (500), 10:20 (300) and 11:05 of one day, in minutes
ExampleDf ==
    MkDf(<<[phone |-> ExamplePhone, ts |-> 600, total |-> 500],
           [phone |-> ExamplePhone, ts |-> 620, total |-> 300],
           [phone |-> ExamplePhone, ts |-> 665, total |-> 200]>>)

InitVisits ==
    /\ pc = "visits_input"
    /\ \/ df = ExampleDf
       \/ \E n \in 0..MaxRows : \E c \in [1..n -> RowCells] : df = MkDf(c)
    /\ df_work = <<>>
    /\ visits = <<>>
    /\ ltv = <<>>
    /\ PhoneIdle /\ CompareIdle /\ OutlierIdle /\ MainIdle

\* visits = group_transactions_to_visits(df, time_window_minutes=30)
GroupVisits ==
    /\ pc = "visits_input"
    /\ df_work' = IF df = <<>> THEN <<>> ELSE assign_visit_ids(df, TIME_WINDOW_MINUTES)
    /\ visits' = group_transactions_to_visits(df, TIME_WINDOW_MINUTES)
    /\ pc' = "visits_grouped"
    /\ UNCHANGED <<df, ltv, phoneVars, compareVars, outlierVars, mainVars>>

\* ltv_data = calculate_ltv(df)
CalculateLtv ==
    /\ pc = "visits_grouped"
    /\ ltv' = calculate_ltv(df)
    /\ pc' = "ltv_done"
    /\ UNCHANGED <<df, df_work, visits, phoneVars, compareVars, outlierVars, mainVars>>

NextVisits == GroupVisits \/ CalculateLtv

SpecVisits == InitVisits /\ [][NextVisits]_vars

Grouped == pc \in {"visits_grouped", "ltv_done"}

\* the grouping of records into visits: the sets of index labels, one per visit
VisitPartition(work) ==
    {{work[k].idx : k \in {j \in 1..Len(work) : work[j].visit_id = v}} :
        v \in {work[k].visit_id : k \in 1..Len(work)}}

Permuted(rows, p) == [i \in 1..Len(rows) |-> rows[p[i]]]

Abs(x) == IF x < 0 THEN 0 - x ELSE x

\* C3 (a): two grouped records of the same phone field whose timestamps are
\* less than the window apart are in the same visit.
C3_NeverSplit ==
    Grouped =>
        \A a, b \in 1..Len(df_work) :
            (df_work[a].phone = df_work[b].phone
             /\ Abs(df_work[a].ts - df_work[b].ts) < TIME_WINDOW_MINUTES)
                => df_work[a].visit_id = df_work[b].visit_id

\* C3 (b): two records of different phone fields are never in the same visit.
C3_NeverMerge ==
    Grouped =>
        \A a, b \in 1..Len(df_work) :
            df_work[a].phone # df_work[b].phone
                => df_work[a].visit_id # df_work[b].visit_id

\* C3 (c): every permutation of the input is grouped into the same visits.
C3_SamePartition ==
    Grouped =>
        \A p \in Permutations(1..Len(df)) :
            VisitPartition(assign_visit_ids(Permuted(df, p), TIME_WINDOW_MINUTES))
                = VisitPartition(df_work)

\* C3: for every set of records and every order of them, records of one
\* identity (phone field) less than the window apart are never split, records of
\* different identities are never merged, and the grouping does not depend on the
\* order of the input.
C3_OrderIndependentGrouping == C3_NeverSplit /\ C3_NeverMerge /\ C3_SamePartition

\* C4: in the scan of the sorted records a record starts a new visit exactly
\* when it is the first, its identity (phone field) differs from the previous
\* record's, or its gap to the previous record exceeds the window (a gap equal to
\* the window stays); the 10:00 / 10:20 / 11:05 example gives two visits, the
\* first of total 800, the second holding the 11:05 record alone.
C4_NewVisitRule ==
    Grouped =>
        /\ \A k \in 1..Len(df_work) :
              (k = 1 \/ df_work[k].visit_id # df_work[k - 1].visit_id)
                  <=> \/ k = 1
                      \/ df_work[k].phone # df_work[k - 1].phone
                      \/ df_work[k].ts - df_work[k - 1].ts > TIME_WINDOW_MINUTES
        /\ df = ExampleDf =>
              /\ Len(visits) = 2
              /\ visits[1].visit_total = 800
              /\ VisitPartition(df_work) = {{1, 2}, {3}}

\* C5: the LTV values of all rows of calculate_ltv add up to the visit_total of
\* all visits of the same records (window 30).
C5_Conservation ==
    pc = "ltv_done" => SumField(ltv, "LTV") = SumField(visits, "visit_total")

\* C5 happens: several visits, one of them of more than one record, summed
C5_Witness ==
    /\ pc = "ltv_done"
    /\ Len(visits) >= 2
    /\ Len(df_work) > Len(visits)
    /\ SumField(ltv, "LTV") > 0

\* C10: every client (phone value) with a record in the input has one row of
\* calculate_ltv, whose LTV is the sum of total over all of the client's records.
C10_LtvIsSumOfTransactions ==
    pc = "ltv_done" =>
        \A i \in 1..Len(df) :
            df[i].phone # NaN =>
                /\ Cardinality({k \in 1..Len(ltv) : ltv[k].phone = df[i].phone}) = 1
                /\ \A k \in 1..Len(ltv) :
                      ltv[k].phone = df[i].phone =>
                          ltv[k].LTV =
                              SumField(SelectSeq(df, LAMBDA r : r.phone = df[i].phone),
                                       "total")

\* C13: in every row of calculate_ltv the transaction count is the number of
\* input records with that phone (those the visit grouping drops included), the
\* visit count is the number of visits attributed to that phone, and
\* 1 <= visit count <= transaction count.
C13_Counts ==
    pc = "ltv_done" =>
        \A k \in 1..Len(ltv) :
            /\ ltv[k].n_transactions
                  = Cardinality({i \in 1..Len(df) : df[i].phone = ltv[k].phone})
            /\ ltv[k].n_visits
                  = Cardinality({v \in 1..Len(visits) : visits[v].phone = ltv[k].phone})
            /\ 1 <= ltv[k].n_visits
            /\ ltv[k].n_visits <= ltv[k].n_transactions

\* C13 happens: a client with more records than visits, one of the records
\* without a timestamp
C13_Witness ==
    /\ pc = "ltv_done"
    /\ \E k \in 1..Len(ltv) :
          /\ ltv[k].n_transactions > ltv[k].n_visits
          /\ \E i \in 1..Len(df) : df[i].phone = ltv[k].phone /\ df[i].ts = NaT

\* the members of visit v: the rows of df_work that carry its visit_id
Members(v) == SelectSeq(df_work, LAMBDA r : r.visit_id = v)

\* C11 (a): every record with a timestamp and a phone is in exactly one visit,
\* every other record in none.
C11_ExactlyOneVisit ==
    Grouped =>
        \A i \in 1..Len(df) :
            LET mine == SelectSeq(df_work, LAMBDA r : r.idx = i)
            IN  IF df[i].ts # NaT /\ df[i].phone # NaN
                THEN /\ Len(mine) = 1
                     /\ mine[1].visit_id \in 1..Len(visits)
                     /\ visits[mine[1].visit_id].visit_id = mine[1].visit_id
                ELSE mine = <<>>

\* C11 (b): all members of a visit carry the same phone field.
C11_OneIdentityPerVisit ==
    Grouped =>
        \A v \in 1..Len(visits) :
            Cardinality({Members(v)[k].phone : k \in 1..Len(Members(v))}) = 1

\* C11 (c): two members of a visit with no member between them in time are at
\* most the window apart.
C11_ConsecutiveWithinWindow ==
    Grouped =>
        \A v \in 1..Len(visits) :
            \A a, b \in 1..Len(Members(v)) :
                (/\ Members(v)[a].ts < Members(v)[b].ts
                 /\ ~\E c \in 1..Len(Members(v)) :
                        /\ Members(v)[a].ts < Members(v)[c].ts
                        /\ Members(v)[c].ts < Members(v)[b].ts)
                    => Members(v)[b].ts - Members(v)[a].ts <= TIME_WINDOW_MINUTES

\* C11: for every input of group_transactions_to_visits, every record with a
\* timestamp and an identity is in exactly one visit (the others in none), all
\* members of a visit have the same identity (phone field), and members of a
\* visit that are consecutive in time are at most the window apart.
C11_VisitInvariant ==
    C11_ExactlyOneVisit /\ C11_OneIdentityPerVisit /\ C11_ConsecutiveWithinWindow

(***************************************************************************)
(* The frames given to compare_washes                                      *)
(***************************************************************************)
MaxWashRows == 2

WashKeys == {<<"a">>, <<"b">>, <<"c">>, NaN}

InitCompare ==
    /\ pc = "compare_input"
    /\ \E n \in 0..MaxWashRows : wash_keys1 \in [1..n -> WashKeys]
    /\ \E n \in 0..MaxWashRows : wash_keys2 \in [1..n -> WashKeys]
    /\ comparison = <<>>
    /\ PhoneIdle /\ VisitIdle /\ OutlierIdle /\ MainIdle

\* comparison = compare_washes(df1_compare, df2_compare, ...)
CompareWashes ==
    /\ pc = "compare_input"
    /\ comparison' = compare_washes(wash_keys1, wash_keys2)
    /\ pc' = "compared"
    /\ UNCHANGED <<wash_keys1, wash_keys2, phoneVars, visitVars, outlierVars, mainVars>>

\* the next rerun compares the same files the other way round
SwapFiles ==
    /\ pc = "compared"
    /\ wash_keys1' = wash_keys2
    /\ wash_keys2' = wash_keys1
    /\ comparison' = compare_washes(wash_keys2, wash_keys1)
    /\ pc' = "compared_swapped"
    /\ UNCHANGED <<phoneVars, visitVars, outlierVars, mainVars>>

NextCompare == CompareWashes \/ SwapFiles

SpecCompare == InitCompare /\ [][NextCompare]_vars

Range(s) == {s[i] : i \in 1..Len(s)}

\* C6: only_in_1, only_in_2 and common are pairwise disjoint, their union is
\* A \cup B, only_in_1 misses B and only_in_2 misses A, and the counts are those
\* of the sets: count_1 = |A| = |only_in_1| + count_common, count_2 = |B| =
\* |only_in_2| + count_common, count_common = |A \cap B|.
C6_Partition ==
    pc \in {"compared", "compared_swapped"} =>
        LET A == wash_set(wash_keys1)
            B == wash_set(wash_keys2)
            O1 == Range(comparison.only_in_1)
            O2 == Range(comparison.only_in_2)
            Co == Range(comparison.common)
        IN  /\ O1 \cap O2 = {} /\ O1 \cap Co = {} /\ O2 \cap Co = {}
            /\ O1 \cup O2 \cup Co = A \cup B
            /\ O1 \cap B = {}
            /\ O2 \cap A = {}
            /\ comparison.count_1 = Cardinality(A)
            /\ comparison.count_1 = Len(comparison.only_in_1) + comparison.count_common
            /\ comparison.count_2 = Cardinality(B)
            /\ comparison.count_2 = Len(comparison.only_in_2) + comparison.count_common
            /\ comparison.count_common = Cardinality(A \cap B)

\* C6 happens: a comparison with a wash on each side only and a common one
C6_Witness ==
    /\ pc = "compared"
    /\ comparison.only_in_1 # <<>>
    /\ comparison.only_in_2 # <<>>
    /\ comparison.common # <<>>

(***************************************************************************)
(* The totals given to the outlier fence                                   *)
(***************************************************************************)
MaxAmounts == 4

AmountValues == {-2, 0, 1, 10}

ExampleAmounts == <<10, 12, 11, 13, 9, 100>>

InitOutliers ==
    /\ pc = "outliers_input"
    /\ \/ amounts = ExampleAmounts
       \/ \E n \in 1..MaxAmounts : amounts \in [1..n -> AmountValues]
    /\ outlier_result = <<>>
    /\ PhoneIdle /\ VisitIdle /\ CompareIdle /\ MainIdle

\* q1 ... outliers = filtered[filtered["total"] > upper]
DetectOutliers ==
    /\ pc = "outliers_input"
    /\ outlier_result' = detect_outliers(amounts)
    /\ pc' = "outliers_done"
    /\ UNCHANGED <<amounts, phoneVars, visitVars, compareVars, mainVars>>

\* the table of outliers, shown when the checkbox is ticked and there are some
ShowOutliers ==
    /\ pc = "outliers_done"
    /\ outlier_result.outliers # {}
    /\ pc' = "outliers_shown"
    /\ UNCHANGED <<amounts, outlier_result, phoneVars, visitVars, compareVars, mainVars>>

NextOutliers == DetectOutliers \/ ShowOutliers

SpecOutliers == InitOutliers /\ [][NextOutliers]_vars

\* the order statistics of the totals, for the statement of the percentiles
SortedAmounts == SortNumbers(amounts)

\* 4 times the linearly interpolated percentile at 25 * quarter of `amounts`:
\* between the order statistics lo and hi around the rank h = (n - 1) * quarter / 4
LinearPercentile_x4(quarter) ==
    LET n == Len(amounts)
        lo == ((n - 1) * quarter) \div 4
        hi == IF ((n - 1) * quarter) % 4 = 0 THEN lo ELSE lo + 1
        w == (n - 1) * quarter - 4 * lo
    IN  (4 - w) * SortedAmounts[lo + 1] + w * SortedAmounts[hi + 1]

\* C7: q1 and q3 are the linearly interpolated quartiles, upper = q3 + 1.5 *
\* (q3 - q1), the outliers are exactly the records whose total is strictly above
\* upper (a total equal to upper is none, and none lies at or below q3); for
\* [10,12,11,13,9,100]: q1 = 10.25, q3 = 12.75, upper = 16.5, outliers = {100}.
C7_UpperFence ==
    pc \in {"outliers_done", "outliers_shown"} =>
        /\ outlier_result.q1_x4 = LinearPercentile_x4(1)
        /\ outlier_result.q3_x4 = LinearPercentile_x4(3)
        /\ outlier_result.upper_x8
              = 2 * outlier_result.q3_x4
                + 3 * (outlier_result.q3_x4 - outlier_result.q1_x4)
        /\ \A i \in 1..Len(amounts) :
              /\ i \in outlier_result.outliers
                    <=> 8 * amounts[i] > outlier_result.upper_x8
              /\ 8 * amounts[i] = outlier_result.upper_x8
                    => i \notin outlier_result.outliers
              /\ 4 * amounts[i] <= outlier_result.q3_x4
                    => i \notin outlier_result.outliers
        /\ amounts = ExampleAmounts =>
              /\ outlier_result.q1_x4 = 41
              /\ outlier_result.q3_x4 = 51
              /\ outlier_result.upper_x8 = 132
              /\ outlier_result.outliers = {6}

\* C7 happens: the example, and a run with a total equal to the fence
C7_Witness ==
    /\ pc = "outliers_done"
    /\ \E i \in 1..Len(amounts) : 8 * amounts[i] = outlier_result.upper_x8
    /\ Len(amounts) >= 2

\* C7 happens on the example of the claim
C7_ExampleReached == pc = "outliers_done" /\ amounts = ExampleAmounts

(***************************************************************************)
(* The runs of main: a file is uploaded (or none), and every change of a   *)
(* widget runs main again                                                  *)
(***************************************************************************)
MaxFileRows == 2

\* 10:00 of two consecutive days
FileTimes == {NaT, 600, 2040}

FilePhones == {<<"7">>, YANDEX_PHONE}

FilePartners == {<<"a">>, <<"b">>}

\* cash, bonus and box receipt of a row
FileMoney == {[cash |-> 5, bonus |-> 2, box |-> 4]}

\* the order number of a row, and the empty cell
FileNumber == <<"1">>

FileCell(no, t, p, pa, m) ==
    [num |-> no, ts |-> t, phone |-> p, partner |-> pa, wash |-> <<"c">>,
     addr |-> <<"e">>, cash |-> m.cash, bonus |-> m.bonus, box |-> m.box]

\* the rows of a file: numbered rows of every time, phone and partner, and a row
\* with an empty order number
FileCells ==
    {FileCell(FileNumber, t, p, pa, m) : t \in FileTimes, p \in FilePhones,
                                         pa \in FilePartners, m \in FileMoney}
    \cup {FileCell(NaN, 600, <<"7">>, <<"b">>, m) : m \in FileMoney}

DecimalDigits == <<"0", "1", "2", "3", "4", "5", "6", "7", "8", "9">>

\* a file of one day with more clients than the top-10 holds: eleven clients
\* paying 1 to 11 in cash, the aggregator phone, and a client paying in bonuses only
ExampleFile ==
    [i \in 1..13 |->
        IF i = 12 THEN FileCell(FileNumber, 600, YANDEX_PHONE, <<"b">>,
                                [cash |-> 50, bonus |-> 0, box |-> 50])
        ELSE IF i = 13 THEN FileCell(FileNumber, 600, <<"7", "1", "3">>, <<"b">>,
                                     [cash |-> 0, bonus |-> 60, box |-> 0])
        ELSE FileCell(FileNumber, 600,
                      <<"7", DecimalDigits[(i \div 10) + 1], DecimalDigits[(i % 10) + 1]>>,
                      IF i = 1 THEN <<"a">> ELSE <<"b">>,
                      [cash |-> i, bonus |-> 0, box |-> i])]

Init ==
    /\ pc = "main"
    /\ \/ uploaded_files = <<>>
       \/ uploaded_files = <<ExampleFile>>
       \/ \E n \in 0..MaxFileRows : \E f \in [1..n -> FileCells] : uploaded_files = <<f>>
    /\ widgets = NoWidgets
    /\ screen = Stopped("none", <<>>, FALSE)
    /\ session_state = NoSession
    /\ PhoneIdle /\ VisitIdle /\ CompareIdle /\ OutlierIdle

\* lines 325-332 may raise: min() and max() of a date column that holds a null
\* (an object column of dates and NaT), or st.date_input given a null default
no_default_range(df_loaded) == df_loaded = <<>> \/ NaT \in Column(df_loaded, "date")

\* the values the date widget can return: a pair within [min_date, max_date], or
\* the start alone while the user is choosing; with no date in the file the
\* widget has no valid default, and it raises or returns some range
DateRanges(df_loaded) ==
    LET lo == min_date(df_loaded)
        hi == max_date(df_loaded)
    IN  IF lo = NaT THEN {<<0, 0>>}
        ELSE {r \in {<<a, b>> : a \in lo..hi, b \in lo..hi} : r[1] <= r[2]}
             \cup {<<lo>>}

\* the selections offered: at most one of the three multiselects is in use
Selections(df_loaded, exclude) ==
    LET offered == IF exclude
                   THEN SelectSeq(df_loaded, LAMBDA r : r.partner_category # "Yandex")
                   ELSE df_loaded
    IN  {[partner_sel |-> s, wash_sel |-> {}, addr_sel |-> {}] :
            s \in SUBSET options(offered, "partner")}
        \cup {[partner_sel |-> {}, wash_sel |-> s, addr_sel |-> {}] :
                s \in SUBSET options(offered, "wash")}
        \cup {[partner_sel |-> {}, wash_sel |-> {}, addr_sel |-> s] :
                s \in SUBSET options(offered, "addr")}

\* the files of a session with more than one file: one row, of either partner
CompareFiles ==
    {<<FileCell(FileNumber, 600, <<"7">>, pa, m)>> : pa \in FilePartners, m \in FileMoney}

MaxFiles == 2

\* the values of the selectbox of the file to analyse, and of the two selectboxes
\* of the comparison (shown only with more than one file)
FileChoices == IF uploaded_files = <<>> THEN {0} ELSE 1..Len(uploaded_files)

CompareChoices == IF Len(uploaded_files) > 1 THEN 1..Len(uploaded_files) ELSE {0}

\* the values of the widgets in a run on the loaded frame, `reached` holding the
\* selectboxes of the files; a widget the run does not reach keeps its value of
\* NoWidgets: none after the date widget when lines 325-334 raise
WidgetValuesOn(df_loaded, reached) ==
    (IF no_default_range(df_loaded)
     THEN {[reached EXCEPT !.date_input_raises = TRUE]} ELSE {})
    \cup UNION {IF Len(dr) # 2 THEN {[reached EXCEPT !.date_range = dr]}
                ELSE UNION {{[reached EXCEPT !.date_range = dr,
                                             !.exclude_yandex = exclude,
                                             !.partner_sel = sel.partner_sel,
                                             !.wash_sel = sel.wash_sel,
                                             !.addr_sel = sel.addr_sel] :
                                sel \in Selections(df_loaded, exclude)} :
                            exclude \in BOOLEAN} :
                dr \in DateRanges(df_loaded)}

\* the values of the widgets in a run that analyses file `selected` and compares
\* cf1 with cf2; with no file no widget is reached
WidgetValues(selected, cf1, cf2) ==
    IF uploaded_files = <<>> THEN {NoWidgets}
    ELSE WidgetValuesOn(load_data(uploaded_files[selected]),
                        [NoWidgets EXCEPT !.selected = selected,
                                          !.compare_file1 = cf1,
                                          !.compare_file2 = cf2])

\* a run of main, from the top, with the widget values of the moment
Run ==
    /\ pc = "main"
    /\ pc' = "shown"
    /\ \E selected \in FileChoices, cf1 \in CompareChoices, cf2 \in CompareChoices :
         \E w \in WidgetValues(selected, cf1, cf2) :
             \E run \in {main(uploaded_files, w, session_state)} :
                 /\ widgets' = w
                 /\ screen' = run.screen
                 /\ session_state' = run.session_state
    /\ UNCHANGED <<uploaded_files, phoneVars, visitVars, compareVars, outlierVars>>

\* the user touches a widget: the page is cleared and the script runs again;
\* st.session_state is kept
Rerun ==
    /\ pc = "shown"
    /\ pc' = "main"
    /\ widgets' = NoWidgets
    /\ screen' = Stopped("none", <<>>, FALSE)
    /\ UNCHANGED <<uploaded_files, session_state, phoneVars, visitVars, compareVars,
                   outlierVars>>

\* the user adds a file to the uploader, which runs the script again
UploadFile ==
    /\ pc = "shown"
    /\ Len(uploaded_files) >= 1
    /\ Len(uploaded_files) < MaxFiles
    /\ \A i \in 1..Len(uploaded_files) : uploaded_files[i] \in CompareFiles
    /\ \E f \in CompareFiles : uploaded_files' = Append(uploaded_files, f)
    /\ pc' = "main"
    /\ widgets' = NoWidgets
    /\ screen' = Stopped("none", <<>>, FALSE)
    /\ UNCHANGED <<session_state, phoneVars, visitVars, compareVars, outlierVars>>

\* the user removes the last file of the uploader, which runs the script again
RemoveFile ==
    /\ pc = "shown"
    /\ uploaded_files # <<>>
    /\ uploaded_files' = SubSeq(uploaded_files, 1, Len(uploaded_files) - 1)
    /\ pc' = "main"
    /\ widgets' = NoWidgets
    /\ screen' = Stopped("none", <<>>, FALSE)
    /\ UNCHANGED <<session_state, phoneVars, visitVars, compareVars, outlierVars>>

Next == Run \/ Rerun \/ UploadFile \/ RemoveFile

Spec == Init /\ [][Next]_vars

\* C8: when the dataset left after the filters is empty, main signals "no data"
\* and stops: none of the aggregations that follow is computed in that run (and
\* a run that does compute them has a non-empty dataset).
C8_NoDataStops ==
    (pc = "shown" /\ screen.status \in {"ok", "no_data"}) =>
        /\ screen.filtered = <<>> <=> screen.status = "no_data"
        /\ screen.filtered = <<>> =>
              /\ screen.computed = {}
              /\ screen.visits = <<>> /\ screen.ltv_data = <<>>
              /\ screen.daily = <<>> /\ screen.top_wash = <<>>
        /\ screen.filtered # <<>> => screen.computed = Aggregations

\* C8 happens: a file with dated records, all of them removed by the filters
C8_Witness ==
    /\ pc = "shown"
    /\ screen.status = "no_data"
    /\ uploaded_files # <<>>
    /\ \E i \in 1..Len(uploaded_files[widgets.selected]) :
          uploaded_files[widgets.selected][i].ts # NaT
    /\ ~widgets.date_input_raises

\* the widgets as main first shows them: nothing excluded, the full date range,
\* nothing selected
DefaultWidgets ==
    /\ uploaded_files # <<>>
    /\ ~widgets.exclude_yandex
    /\ ~widgets.date_input_raises
    /\ widgets.date_range = <<min_date(load_data(uploaded_files[widgets.selected])),
                              max_date(load_data(uploaded_files[widgets.selected]))>>
    /\ widgets.partner_sel = {} /\ widgets.wash_sel = {} /\ widgets.addr_sel = {}

\* C9: a record whose payment time does not parse survives loading and, with
\* the default widgets, stays in the filtered dataset and counts in the
\* total/cash/bonus sums, the number of operations, the top of the washes and the
\* outlier fence; it is left out only of the groupings by date and of the visits.
C9_UndatedRowRetained ==
    (pc = "shown" /\ screen.status = "ok" /\ DefaultWidgets) =>
        LET loaded == load_data(uploaded_files[widgets.selected])
        IN  /\ Len(loaded) = Len(uploaded_files[widgets.selected])
            /\ \A i \in 1..Len(loaded) :
                  loaded[i].ts = NaT =>
                      \E k \in 1..Len(screen.filtered) : screen.filtered[k].idx = i
            /\ screen.n_operations = Len(loaded)
            /\ screen.total_sum = SumField(loaded, "total")
            /\ screen.total_cash = SumField(loaded, "cash")
            /\ screen.total_bonus = SumField(loaded, "bonus")
            /\ SumField(screen.top_wash, "orders") = Len(loaded)
            /\ screen.outliers
                  = detect_outliers([i \in 1..Len(loaded) |-> loaded[i].total])
            /\ SumField(screen.visits, "visit_total")
                  = SumField(SelectSeq(loaded, LAMBDA r : r.ts # NaT), "total")
            /\ SumField(screen.daily, "orders")
                  = Len(SelectSeq(loaded, LAMBDA r : r.ts # NaT))

\* the runs of main that reach the aggregations
Shown == pc = "shown" /\ screen.status = "ok"

\* the filtered records of one wash
RecordsOf(key) == SelectSeq(screen.filtered, LAMBDA r : r.wash_key = key)

\* C12 (a): the ranking has exactly one row per wash_key of the filtered records.
C12_OneRowPerKey ==
    Shown =>
        /\ {screen.top_wash[k].wash_key : k \in 1..Len(screen.top_wash)}
              = Column(screen.filtered, "wash_key")
        /\ Len(screen.top_wash) = Cardinality(Column(screen.filtered, "wash_key"))

\* C12 (b): the order count of a row is the number of filtered records of its wash.
C12_OrderCount ==
    Shown =>
        \A k \in 1..Len(screen.top_wash) :
            screen.top_wash[k].orders = Len(RecordsOf(screen.top_wash[k].wash_key))

\* C12 (c): the revenue of a row is the sum of the box receipts of its records,
\* and the rows are in non-increasing order of revenue, so that no row after the
\* first 10 has more revenue than one of them.
C12_RevenueDescending ==
    Shown =>
        /\ \A k \in 1..Len(screen.top_wash) :
              screen.top_wash[k].revenue
                  = SumField(RecordsOf(screen.top_wash[k].wash_key), "box")
        /\ \A k \in 1..(Len(screen.top_wash) - 1) :
              screen.top_wash[k].revenue >= screen.top_wash[k + 1].revenue
        /\ \A k \in 1..Len(screen.top_wash) :
              \A j \in 1..Len(screen.top_wash) :
                  (k <= TOP_N /\ j > TOP_N)
                      => screen.top_wash[k].revenue >= screen.top_wash[j].revenue

\* C12: the ranking of the washes has one row per distinct wash_key of the
\* filtered records, with the number of those records as order count and the sum
\* of their box receipts as revenue, in non-increasing order of revenue.
C12_TopWashRanking == C12_OneRowPerKey /\ C12_OrderCount /\ C12_RevenueDescending

\* the clients of the LTV table that pass both exclusions of the top-10
Passing(c) ==
    /\ normalize_phone(c.phone) # YANDEX_PHONE
    /\ SumField(SelectSeq(screen.filtered, LAMBDA r : r.phone = c.phone), "cash") # 0

\* C14: the top-10 of LTV never holds the aggregator identity (normalized phone
\* 133133133133) nor a client whose cash payments over the filtered records add
\* up to 0; every client it holds is a row of the LTV table among the 10 highest
\* LTV of the clients passing both exclusions.
C14_TopLtvExclusions ==
    Shown =>
        /\ Len(screen.top_10_ltv) <= TOP_N
        /\ \A k \in 1..Len(screen.top_10_ltv) :
              LET c == screen.top_10_ltv[k]
              IN  /\ normalize_phone(c.phone) # YANDEX_PHONE
                  /\ SumField(SelectSeq(screen.filtered, LAMBDA r : r.phone = c.phone),
                              "cash") # 0
                  /\ \E j \in 1..Len(screen.ltv_data) : screen.ltv_data[j] = c
                  /\ Cardinality({j \in 1..Len(screen.ltv_data) :
                                     /\ Passing(screen.ltv_data[j])
                                     /\ screen.ltv_data[j].LTV > c.LTV}) < TOP_N

\* C14 happens: a full top-10, with the aggregator, a bonus-only client and an
\* eleventh passing client left out
C14_Witness ==
    /\ Shown
    /\ Len(screen.top_10_ltv) = TOP_N
    /\ \E j \in 1..Len(screen.ltv_data) :
          normalize_phone(screen.ltv_data[j].phone) = YANDEX_PHONE
    /\ \E j \in 1..Len(screen.ltv_data) :
          /\ normalize_phone(screen.ltv_data[j].phone) # YANDEX_PHONE
          /\ ~Passing(screen.ltv_data[j])
    /\ \E j \in 1..Len(screen.ltv_data) :
          /\ Passing(screen.ltv_data[j])
          /\ \A k \in 1..Len(screen.top_10_ltv) :
                screen.top_10_ltv[k] # screen.ltv_data[j]

\* the comparison of the two files now selected, as the main area shows one
CurrentComparison ==
    LET c == compare_washes(wash_keys_of(uploaded_files[widgets.compare_file1]),
                            wash_keys_of(uploaded_files[widgets.compare_file2]))
    IN  [disappeared |-> c.only_in_1,
         appeared |-> c.only_in_2,
         counts |-> IF c.only_in_1 # <<>> THEN <<c.count_1, c.count_2, c.count_common>>
                    ELSE <<>>]

\* C15: in every run of every sequence of reruns the comparison in the main area
\* (disappeared and new washes, the three counts) is the compare_washes result of
\* the two files now selected; with fewer than two files, or the same file on
\* both sides, no comparison of an earlier run is shown.
C15_ComparisonIsCurrent ==
    Shown =>
        IF Len(uploaded_files) >= 2 /\ widgets.compare_file1 # widgets.compare_file2
        THEN /\ screen.comparison.disappeared = CurrentComparison.disappeared
             /\ screen.comparison.appeared = CurrentComparison.appeared
             /\ screen.comparison.counts = CurrentComparison.counts
        ELSE screen.comparison = NoDisplay

\* the comparison shown in a run that compares two files is the current one
C15_FreshWhenCompared ==
    (Shown /\ Len(uploaded_files) >= 2
           /\ widgets.compare_file1 # widgets.compare_file2) =>
        /\ screen.comparison.disappeared = CurrentComparison.disappeared
        /\ screen.comparison.appeared = CurrentComparison.appeared
        /\ screen.comparison.counts = CurrentComparison.counts

====
